---- MODULE Spec2Model ----
(***************************************************************************)
(* qdiary: a calendar widget over one SQLite table                         *)
(*   diary(id INTEGER PRIMARY KEY AUTOINCREMENT, date DATE, entry TEXT).   *)
(* The model follows src/main.cpp: the DiaryApp constructor, the slots     *)
(* showEntry, addEntry, updateEntry, confirmRemoveEntry / removeEntry and  *)
(* highlightDaysWithEntries, driven by the user's calendar clicks, text    *)
(* edits and button clicks.                                                *)
(*                                                                         *)
(* The table is a sequence of rows in rowid order; the id column is never  *)
(* read by the program, so a row's position stands for its id.             *)
(***************************************************************************)
EXTENDS Integers, Sequences, FiniteSets, TLC

\* Largest number of rows the table is allowed to grow to in the model.
MaxRows == 3

\* Calendar dates the user clicks on, as <<year, month, day>>.
Dates == { <<2024, 3, 1>>, <<2024, 12, 31>> }

\* Contents the user types into the text edit.
Texts == { "", "a", "b" }

\* A default-constructed QDate(): null / invalid.
NullDate == <<0, 0, 0>>

\* Result of a SELECT that yields no row.
Absent == "<absent>"

VARIABLES
    opened,       \* db.open() succeeded and the widgets and connections exist
    rows,         \* table diary, in rowid order: [date: yyyy-MM-dd text, entry: text]
    selected,     \* calendarWidget->selectedDate()
    buffer,       \* entryTextEdit->toPlainText()
    highlighted,  \* dates whose text format has the green background
    log,          \* last qDebug() line
    reply         \* last answer of the QMessageBox::question prompt

vars == <<opened, rows, selected, buffer, highlighted, log, reply>>

-----------------------------------------------------------------------------
(* QDate::toString("yyyy-MM-dd") and QDate::fromString(s, "yyyy-MM-dd")    *)

DigitChar == <<"0", "1", "2", "3", "4", "5", "6", "7", "8", "9">>

DigitVal(c) == CHOOSE n \in 0..9 : DigitChar[n + 1] = c

IsDigit(c) == \E n \in 0..9 : DigitChar[n + 1] = c

Pad2(n) == << DigitChar[((n \div 10) % 10) + 1], DigitChar[(n % 10) + 1] >>

Pad4(n) == << DigitChar[((n \div 1000) % 10) + 1], DigitChar[((n \div 100) % 10) + 1] >>
           \o Pad2(n % 100)

toString(date) == Pad4(date[1]) \o <<"-">> \o Pad2(date[2]) \o <<"-">> \o Pad2(date[3])

IsLeap(y) == (y % 4 = 0 /\ y % 100 # 0) \/ y % 400 = 0

DaysInMonth(y, m) ==
    IF m = 2 THEN (IF IsLeap(y) THEN 29 ELSE 28)
    ELSE IF m \in {4, 6, 9, 11} THEN 30 ELSE 31

fromString(s) ==
    IF /\ Len(s) = 10
       /\ s[5] = "-" /\ s[8] = "-"
       /\ \A i \in {1, 2, 3, 4, 6, 7, 9, 10} : IsDigit(s[i])
    THEN LET y == DigitVal(s[1]) * 1000 + DigitVal(s[2]) * 100
                  + DigitVal(s[3]) * 10 + DigitVal(s[4])
             m == DigitVal(s[6]) * 10 + DigitVal(s[7])
             d == DigitVal(s[9]) * 10 + DigitVal(s[10])
         IN IF m \in 1..12 /\ d >= 1 /\ d <= DaysInMonth(y, m)
            THEN <<y, m, d>>
            ELSE NullDate
    ELSE NullDate

-----------------------------------------------------------------------------
(* The SQL statements                                                      *)

\* rows WHERE date = :date, in rowid order
RECURSIVE SelectWhere(_, _)
SelectWhere(rs, dateString) ==
    IF rs = << >> THEN << >>
    ELSE IF Head(rs).date = dateString
         THEN <<Head(rs)>> \o SelectWhere(Tail(rs), dateString)
         ELSE SelectWhere(Tail(rs), dateString)

\* SELECT entry FROM diary WHERE date = :date; query.next(); query.value(0)
Get(rs, dateString) ==
    LET m == SelectWhere(rs, dateString)
    IN IF m = << >> THEN Absent ELSE m[1].entry

\* INSERT INTO diary (date, entry) VALUES (:date, :entry)
InsertRow(rs, dateString, entryText) ==
    Append(rs, [date |-> dateString, entry |-> entryText])

\* A faulty UPDATE that rewrites only the newest row of the date.
UpdateRows_LastOnly(rs, dateString, entryText) ==
    LET hits == { i \in 1..Len(rs) : rs[i].date = dateString }
    IN [ i \in 1..Len(rs) |->
           IF i \in hits /\ \A j \in hits : j <= i
           THEN [rs[i] EXCEPT !.entry = entryText]
           ELSE rs[i] ]

\* A faulty UPDATE that rewrites every row (WHERE clause lost).
UpdateRows_NoWhere(rs, dateString, entryText) ==
    [ i \in 1..Len(rs) |-> [rs[i] EXCEPT !.entry = entryText] ]

\* A faulty UPDATE that inserts the row when none matches (upsert).
UpdateRows_Upsert(rs, dateString, entryText) ==
    IF \E i \in 1..Len(rs) : rs[i].date = dateString
    THEN [ i \in 1..Len(rs) |->
             IF rs[i].date = dateString
             THEN [rs[i] EXCEPT !.entry = entryText]
             ELSE rs[i] ]
    ELSE Append(rs, [date |-> dateString, entry |-> entryText])

\* UPDATE diary SET entry = :entry WHERE date = :date
UpdateRows(rs, dateString, entryText) ==
    [ i \in 1..Len(rs) |->
        IF rs[i].date = dateString
        THEN [rs[i] EXCEPT !.entry = entryText]
        ELSE rs[i] ]

\* A faulty DELETE that removes only the oldest row of the date.
RECURSIVE DeleteRows_FirstOnly(_, _)
DeleteRows_FirstOnly(rs, dateString) ==
    IF rs = << >> THEN << >>
    ELSE IF Head(rs).date = dateString
         THEN Tail(rs)
         ELSE <<Head(rs)>> \o DeleteRows_FirstOnly(Tail(rs), dateString)

\* DELETE FROM diary WHERE date = :date
RECURSIVE DeleteRows(_, _)
DeleteRows(rs, dateString) ==
    IF rs = << >> THEN << >>
    ELSE IF Head(rs).date = dateString
         THEN DeleteRows(Tail(rs), dateString)
         ELSE <<Head(rs)>> \o DeleteRows(Tail(rs), dateString)

-----------------------------------------------------------------------------
(* Calendar highlighting                                                   *)

\* A setDateTextFormat that ignores a null date instead of clearing.
setDateTextFormat_NoClear(h, date, green) ==
    IF date = NullDate THEN h
    ELSE IF green THEN h \cup {date} ELSE h \ {date}

\* QCalendarWidget::setDateTextFormat(date, format): a null date clears every
\* format, any other date gets the format.
setDateTextFormat(h, date, green) ==
    IF date = NullDate THEN {}
    ELSE IF green THEN h \cup {date} ELSE h \ {date}

\* while (query.next()) { ... setDateTextFormat(date, entryFormat); }
RECURSIVE MarkRows(_, _)
MarkRows(rs, h) ==
    IF rs = << >> THEN h
    ELSE MarkRows(Tail(rs), setDateTextFormat(h, fromString(Head(rs).date), TRUE))

highlightDaysWithEntries(rs, h) ==
    MarkRows(rs, setDateTextFormat(h, NullDate, FALSE))

-----------------------------------------------------------------------------
(* State machine                                                           *)

Init ==
    /\ opened \in BOOLEAN
    /\ rows = << >>
    /\ selected \in Dates
    /\ buffer = ""
    /\ highlighted = {}
    /\ log = IF opened THEN "" ELSE "Error: Unable to open database"
    /\ reply = "none"

\* The process ends and main() runs again on the same diary.db; the calendar
\* starts on the current date, the text edit empty.
Restart(ok, today) ==
    /\ opened' = ok
    /\ rows' = rows
    /\ selected' = today
    /\ buffer' = ""
    /\ highlighted' = IF ok THEN highlightDaysWithEntries(rows, {}) ELSE {}
    /\ log' = IF ok THEN "" ELSE "Error: Unable to open database"
    /\ reply' = "none"

\* A single click or a keyboard move in the calendar: the selection changes,
\* and no slot is connected to that.
SelectDate(d) ==
    /\ opened
    /\ d # selected
    /\ selected' = d
    /\ UNCHANGED <<opened, rows, buffer, highlighted, log, reply>>

\* The user types in the text edit.
EditBuffer(t) ==
    /\ opened
    /\ t # buffer
    /\ buffer' = t
    /\ UNCHANGED <<opened, rows, selected, highlighted, log, reply>>

\* QCalendarWidget::activated(selected date) -> showEntry(date)
showEntry(ok) ==
    /\ opened
    /\ LET e == Get(rows, toString(selected))
       IN buffer' = IF ok /\ e # Absent THEN e ELSE ""
    /\ UNCHANGED <<opened, rows, selected, highlighted, log, reply>>

\* An addEntry whose error branch also clears the text edit.
addEntry_ClearOnError(ok) ==
    /\ opened
    /\ Len(rows) < MaxRows
    /\ IF ~ok
       THEN /\ log' = "Error inserting diary entry"
            /\ buffer' = ""
            /\ UNCHANGED <<rows, highlighted>>
       ELSE /\ rows' = InsertRow(rows, toString(selected), buffer)
            /\ log' = "Diary entry added successfully"
            /\ highlighted' = highlightDaysWithEntries(rows', highlighted)
            /\ buffer' = buffer
    /\ UNCHANGED <<opened, selected, reply>>

addEntry(ok) ==
    /\ opened
    /\ Len(rows) < MaxRows
    /\ IF ~ok
       THEN /\ log' = "Error inserting diary entry"
            /\ UNCHANGED <<rows, highlighted>>
       ELSE /\ rows' = InsertRow(rows, toString(selected), buffer)
            /\ log' = "Diary entry added successfully"
            /\ highlighted' = highlightDaysWithEntries(rows', highlighted)
    /\ UNCHANGED <<opened, selected, buffer, reply>>

updateEntry(ok) ==
    /\ opened
    /\ IF ~ok
       THEN /\ log' = "Error updating diary entry"
            /\ UNCHANGED <<rows, highlighted>>
       ELSE /\ rows' = UpdateRows(rows, toString(selected), buffer)
            /\ log' = "Diary entry updated successfully"
            /\ highlighted' = highlightDaysWithEntries(rows', highlighted)
    /\ UNCHANGED <<opened, selected, buffer, reply>>

removeEntry(ok) ==
    /\ IF ~ok
       THEN /\ log' = "Error removing diary entry"
            /\ UNCHANGED <<rows, highlighted>>
       ELSE /\ rows' = DeleteRows(rows, toString(selected))
            /\ log' = "Diary entry removed successfully"
            /\ highlighted' = highlightDaysWithEntries(rows', highlighted)
    /\ UNCHANGED <<opened, selected, buffer>>

\* A confirmRemoveEntry that calls removeEntry whatever the answer.
confirmRemoveEntry_NoCheck(answer, ok) ==
    /\ opened
    /\ reply' = answer
    /\ removeEntry(ok)

confirmRemoveEntry(answer, ok) ==
    /\ opened
    /\ reply' = answer
    /\ IF answer = "Yes"
       THEN removeEntry(ok)
       ELSE UNCHANGED <<opened, rows, selected, buffer, highlighted, log>>

Next ==
    \/ \E ok \in BOOLEAN, today \in Dates : Restart(ok, today)
    \/ \E d \in Dates : SelectDate(d)
    \/ \E t \in Texts : EditBuffer(t)
    \/ \E ok \in BOOLEAN : showEntry(ok)
    \/ \E ok \in BOOLEAN : addEntry(ok)
    \/ \E ok \in BOOLEAN : updateEntry(ok)
    \/ \E answer \in {"Yes", "No"}, ok \in BOOLEAN : confirmRemoveEntry(answer, ok)

Spec == Init /\ [][Next]_vars

-----------------------------------------------------------------------------
(* Properties                                                              *)

\* The rows stored for a date, oldest first.
RowsFor(rs, d) == SelectWhere(rs, toString(d))

HasEntry(rs, d) == RowsFor(rs, d) # << >>

\* The dates SELECT date FROM diary returns, parsed as the highlighter does.
listDatesWithEntries(rs) == { fromString(rs[i].date) : i \in 1..Len(rs) }

\* What showEntry leaves in the text edit for a date when the query works.
Loaded(rs, d) == IF HasEntry(rs, d) THEN Get(rs, toString(d)) ELSE ""

\* C1: the diary table holds at most one row per calendar date.
C1_OneRowPerDate ==
    \A i, j \in 1..Len(rows) : rows[i].date = rows[j].date => i = j

\* C2: after a successful Add with selected date d and buffer text t, get(d)
\* returns exactly t and d is among listDatesWithEntries, also when d already
\* had an entry.
C2_AddThenGet ==
    [][ addEntry(TRUE) =>
          /\ Get(rows', toString(selected)) = buffer
          /\ selected \in listDatesWithEntries(rows') ]_vars

\* C3: whenever the selected date changes, the buffer is reloaded for the new
\* date: the stored text if the date has an entry, empty if it has none.
C3_SelectionReloadsBuffer ==
    [][ selected' # selected => buffer' = Loaded(rows', selected') ]_vars

\* C4: after a successful Update with selected date d and buffer text t2 on a
\* date that has an entry (one row or several), get(d) returns exactly t2;
\* every row of d carries t2, so the answer does not depend on row order.
C4_UpdateThenGet ==
    [][ (updateEntry(TRUE) /\ HasEntry(rows, selected)) =>
          /\ Get(rows', toString(selected)) = buffer
          /\ \A i \in 1..Len(rows') :
                 rows'[i].date = toString(selected) => rows'[i].entry = buffer ]_vars

\* An Update has just run on a date that holds several rows, and all of them
\* now carry the buffer text.
C4_Witness ==
    /\ log = "Diary entry updated successfully"
    /\ Len(RowsFor(rows, selected)) >= 2
    /\ buffer # ""
    /\ Get(rows, toString(selected)) = buffer

\* C5: after a successful confirmed Remove with selected date d, get(d) is
\* absent and d is not among listDatesWithEntries, however many rows d had;
\* if d had no entry the table is unchanged.
C5_RemoveThenAbsent ==
    [][ confirmRemoveEntry("Yes", TRUE) =>
          /\ Get(rows', toString(selected)) = Absent
          /\ selected \notin listDatesWithEntries(rows')
          /\ (~HasEntry(rows, selected) => rows' = rows) ]_vars

\* A confirmed Remove has just emptied the selected date while another date
\* keeps its rows.
C5_Witness ==
    /\ log = "Diary entry removed successfully"
    /\ reply = "Yes"
    /\ ~HasEntry(rows, selected)
    /\ Len(rows) >= 2

C8_UpdateMissingIsNoOp ==
    [][ (updateEntry(TRUE) /\ ~HasEntry(rows, selected)) =>
          /\ rows' = rows
          /\ Get(rows', toString(selected)) = Absent
          /\ selected \notin highlighted'
          /\ log' = "Diary entry updated successfully"
          /\ opened' ]_vars

\* An Update has just run with text in the buffer on a date without entry.
C8_Witness ==
    /\ log = "Diary entry updated successfully"
    /\ buffer # ""
    /\ ~HasEntry(rows, selected)
    /\ rows = << >>

\* C9: rows are deleted only in a step in which the prompt was answered Yes,
\* and answering No leaves rows, buffer, selected date and highlights as
\* they were.
C9_RemoveNeedsYes ==
    [][ /\ (\E ok \in BOOLEAN : confirmRemoveEntry("No", ok)) =>
               UNCHANGED <<rows, buffer, selected, highlighted>>
        /\ Len(rows') < Len(rows) => reply' = "Yes" ]_vars

\* The prompt was declined while the selected date holds an entry.
C9_Witness ==
    /\ reply = "No"
    /\ HasEntry(rows, selected)
    /\ selected \in highlighted

\* C10: Add, Update and confirmed Remove leave the rows of every date other
\* than the selected one unchanged, and activating a date changes no row.
C10_OtherDatesUntouched ==
    [][ /\ \A e \in Dates : e # selected => RowsFor(rows', e) = RowsFor(rows, e)
        /\ (\E ok \in BOOLEAN : showEntry(ok)) => rows' = rows ]_vars

\* An Update has just rewritten the selected date while another date keeps
\* a different text.
C10_Witness ==
    /\ log = "Diary entry updated successfully"
    /\ HasEntry(rows, selected)
    /\ Get(rows, toString(selected)) = buffer
    /\ \E e \in Dates : e # selected /\ HasEntry(rows, e)
                        /\ Get(rows, toString(e)) # buffer

====
